---- MODULE Spec2Model ----
(***************************************************************************)
(* Model of manycore_parser's ManycoreSystem::parse_file (src/src/lib.rs). *)
(* A state holds one decoded document (the value quick_xml::de::from_str   *)
(* returns) and, once parse_file has run, the model it returned or the     *)
(* fact that it panicked; wire and firstModel hold the serialized form of  *)
(* a returned model and that model, once it has been serialized.  Vectors  *)
(* are functions over 0..len-1 so that an index of the model is the usize  *)
(* index of the code.  Option<T> is a set of at most one element:          *)
(* None == {} and Some(x) == {x}.                                          *)
(***************************************************************************)
EXTENDS Integers, FiniteSets, Sequences, TLC

VARIABLES rows, columns, cores, connections, task_core_map,
          core_attributes, router_attributes, pc, panicAt, input, wire, firstModel

vars == <<rows, columns, cores, connections, task_core_map,
          core_attributes, router_attributes, pc, panicAt, input, wire, firstModel>>

----------------------------------------------------------------------------
(* Bounds of the explored documents. *)

MaxRows == 2

MaxCols == 2

MaxCores == 4

MaxId == 3

MaxPlaceCores == 3

MaxPlaceId == 2

MaxTask == 1

MaxAttrCores == 2

MaxLen == 2

MaxRoundCores == 2

MaxRoundId == 1

(* Widths of the integer types of the code. *)

U8 == 256

----------------------------------------------------------------------------
(* Option<T> *)

None == {}

Some(x) == {x}

Unwrap(o) == CHOOSE x \in o : TRUE

(* Vec<T> as a function over 0..len-1 *)

VecLen(list) == Cardinality(DOMAIN list)

Vecs(n, S) == [0 .. n - 1 -> S]

(* HashMap::insert: adds the key or overwrites its value *)

MapInsert(map, k, v) == [x \in DOMAIN map \cup {k} |-> IF x = k THEN v ELSE map[x]]

EmptyMap == [x \in {} |-> 0]

----------------------------------------------------------------------------
(* Attribute values are texts: tuples of one-character strings. *)

Digits == <<"0", "1", "2", "3", "4", "5", "6", "7", "8", "9">>

IsDigit(c) == \E k \in 1 .. 10 : Digits[k] = c

DigitVal(c) == (CHOOSE k \in 1 .. 10 : Digits[k] = c) - 1

(* u64::MAX = 18446744073709551615, as its decimal digits *)
U64MaxDigits == <<1, 8, 4, 4, 6, 7, 4, 4, 0, 7, 3, 7, 0, 9, 5, 5, 1, 6, 1, 5>>

(* a natural number held as its decimal digits without leading zeros (<<>> is 0) *)
RECURSIVE StripZeros(_)
StripZeros(ds) == IF ds # <<>> /\ Head(ds) = 0 THEN StripZeros(Tail(ds)) ELSE ds

RECURSIVE LexLeq(_, _)
LexLeq(a, b) ==
    IF a = <<>> THEN TRUE
    ELSE IF Head(a) # Head(b) THEN Head(a) < Head(b)
    ELSE LexLeq(Tail(a), Tail(b))

NumLeq(a, b) == Len(a) < Len(b) \/ (Len(a) = Len(b) /\ LexLeq(a, b))

(* the digit loop of <u64 as FromStr>::from_str: result = result * 10 + digit,
   checked; a character that is no digit is InvalidDigit, a result above
   u64::MAX is PosOverflow *)
RECURSIVE ParseDigitsNoOverflowCheck(_, _)
ParseDigitsNoOverflowCheck(src, acc) ==
    IF src = <<>> THEN "Ok"
    ELSE IF ~IsDigit(Head(src)) THEN "InvalidDigit"
    ELSE ParseDigitsNoOverflowCheck(Tail(src), StripZeros(Append(acc, DigitVal(Head(src)))))

RECURSIVE ParseDigits(_, _)
ParseDigits(src, acc) ==
    IF src = <<>> THEN "Ok"
    ELSE IF ~IsDigit(Head(src)) THEN "InvalidDigit"
    ELSE LET next == StripZeros(Append(acc, DigitVal(Head(src))))
         IN  IF ~NumLeq(next, U64MaxDigits) THEN "PosOverflow"
             ELSE ParseDigits(Tail(src), next)

(* value.parse::<u64>(): "" is Empty, a lone sign is InvalidDigit, one leading
   '+' is skipped, '-' is no digit of an unsigned type *)
ParseU64(value) ==
    IF value = <<>> THEN "Empty"
    ELSE IF value = <<"+">> \/ value = <<"-">> THEN "InvalidDigit"
    ELSE IF Head(value) = "+" THEN ParseDigits(Tail(value), <<>>)
    ELSE ParseDigits(value, <<>>)

(* the match on value.parse::<u64>() *)
AttributeTypeOf(value) == IF ParseU64(value) = "Ok" THEN "Number" ELSE "Text"

----------------------------------------------------------------------------
(* The decoded document *)

(* Router::id is #[serde(skip)]: decoding leaves it at u8::default() *)
DecodedRouterId == 0

Router(id, other_attributes) == [id |-> id, other_attributes |-> other_attributes]

Core(id, router, allocated_task, other_attributes) ==
    [id |-> id, router |-> router, allocated_task |-> allocated_task,
     other_attributes |-> other_attributes]

(* the keys of the attribute bags, in the order a BTreeMap<String, _> iterates *)
KeyOrder == <<"@age", "@id">>

----------------------------------------------------------------------------
(* parse_file, step by step *)

(* list_mut().sort_by(|me, other| me.id().cmp(&other.id())): a stable sort, so
   the element at position p moves behind every element with a smaller id and
   every element with the same id that stood before it *)
SortRank(list, p) ==
    Cardinality({q \in DOMAIN list :
                    \/ list[q].id < list[p].id
                    \/ (list[q].id = list[p].id /\ q < p)})

SortById(list) ==
    [r \in DOMAIN list |-> list[CHOOSE p \in DOMAIN list : SortRank(list, p) = r]]

(* the neighbours of the core at index i (the body of the loop, lines 143-166) *)
NeighboursAt(i, usize_columns, last) ==
    LET right == i + 1
        top == i >= usize_columns
        bottom == i + usize_columns
    IN  [right  |-> IF right % usize_columns # 0 THEN Some(right) ELSE None,
         left   |-> IF i % usize_columns # 0 THEN Some(i - 1) ELSE None,
         top    |-> IF top THEN Some(i - usize_columns) ELSE None,
         bottom |-> IF bottom <= last THEN Some(bottom) ELSE None]

(* task_core_map after the iterations 0..=i of the loop *)
RECURSIVE TaskCoreMapFirstWins(_, _)
TaskCoreMapFirstWins(list, i) ==
    IF i < 0 THEN EmptyMap
    ELSE LET before == TaskCoreMapFirstWins(list, i - 1)
         IN  IF list[i].allocated_task # None
                  /\ Unwrap(list[i].allocated_task) \notin DOMAIN before
             THEN MapInsert(before, Unwrap(list[i].allocated_task), i)
             ELSE before

RECURSIVE TaskCoreMapById(_, _)
TaskCoreMapById(list, i) ==
    IF i < 0 THEN EmptyMap
    ELSE LET before == TaskCoreMapById(list, i - 1)
         IN  IF list[i].allocated_task # None
             THEN MapInsert(before, Unwrap(list[i].allocated_task), list[i].id)
             ELSE before

RECURSIVE TaskCoreMapUpTo(_, _)
TaskCoreMapUpTo(list, i) ==
    IF i < 0 THEN EmptyMap
    ELSE LET before == TaskCoreMapUpTo(list, i - 1)
         IN  IF list[i].allocated_task # None
             THEN MapInsert(before, Unwrap(list[i].allocated_task), i)
             ELSE before

(* router_mut().set_id(i as u8) on every core *)
WithRouterIds(list) ==
    [i \in DOMAIN list |->
        [list[i] EXCEPT !.router = [list[i].router EXCEPT !.id = i % U8]]]

(* populate_attribute_map: the keys of the bag from position k of KeyOrder on *)
RECURSIVE PopulateFromLastWins(_, _, _)
PopulateFromLastWins(bag, k, map) ==
    IF k > Len(KeyOrder) THEN map
    ELSE IF KeyOrder[k] \in DOMAIN bag
         THEN PopulateFromLastWins(bag, k + 1,
                  MapInsert(map, KeyOrder[k], AttributeTypeOf(bag[KeyOrder[k]])))
         ELSE PopulateFromLastWins(bag, k + 1, map)

RECURSIVE PopulateFrom(_, _, _)
PopulateFrom(bag, k, map) ==
    IF k > Len(KeyOrder) THEN map
    ELSE IF KeyOrder[k] \in DOMAIN bag /\ KeyOrder[k] \notin DOMAIN map
         THEN PopulateFrom(bag, k + 1,
                  MapInsert(map, KeyOrder[k], AttributeTypeOf(bag[KeyOrder[k]])))
         ELSE PopulateFrom(bag, k + 1, map)

populate_attribute_map(other_attributes, map) ==
    IF other_attributes = None THEN map
    ELSE PopulateFrom(Unwrap(other_attributes), 1, map)

(* core_attributes before the scan: the two pinned keys *)
PinnedCoreAttributes == MapInsert(MapInsert(EmptyMap, "@id", "Text"), "@coordinates", "Text")

(* the loop of lines 193-196, after the cores 0..=i *)
RECURSIVE CoreAttributesUpTo(_, _)
CoreAttributesUpTo(list, i) ==
    IF i < 0 THEN PinnedCoreAttributes
    ELSE populate_attribute_map(list[i].other_attributes, CoreAttributesUpTo(list, i - 1))

RECURSIVE RouterAttributesUpTo(_, _)
RouterAttributesUpTo(list, i) ==
    IF i < 0 THEN EmptyMap
    ELSE populate_attribute_map(list[i].router.other_attributes,
                                RouterAttributesUpTo(list, i - 1))

(* the builds of the crate: with and without overflow checks *)
Builds == {"debug", "release"}

(* where parse_file panics on this document, "" when it does not:
   `len() - 1` on an empty list overflows (a panic with overflow checks, a wrap
   to usize::MAX without: then `right % 0` or `list()[0]` panics in the first
   iteration); `right % usize_columns` panics when columns is 0 *)
PanicOf(list, usize_columns, build) ==
    IF VecLen(list) = 0
    THEN IF build = "debug" THEN "subtract_with_overflow"
         ELSE IF usize_columns = 0 THEN "remainder_by_zero"
         ELSE "index_out_of_bounds"
    ELSE IF usize_columns = 0 THEN "remainder_by_zero"
    ELSE ""

ParseFile ==
    /\ pc = "decoded"
    /\ \E build \in Builds :
        LET sorted == SortById(cores)
            last == VecLen(sorted) - 1
            panic == PanicOf(sorted, columns, build)
        IN  IF panic # ""
            THEN /\ pc' = "panicked"
                 /\ panicAt' = panic
                 /\ UNCHANGED <<cores, connections, task_core_map,
                                core_attributes, router_attributes>>
            ELSE /\ pc' = "returned"
                 /\ panicAt' = ""
                 /\ cores' = WithRouterIds(sorted)
                 /\ connections' = [i \in 0 .. last |-> NeighboursAt(i, columns, last)]
                 /\ task_core_map' = TaskCoreMapUpTo(sorted, last)
                 /\ core_attributes' = CoreAttributesUpTo(sorted, last)
                 /\ router_attributes' = RouterAttributesUpTo(sorted, last)
    /\ UNCHANGED <<rows, columns, input, wire, firstModel>>

----------------------------------------------------------------------------
(* quick_xml::se::to_string on a returned model, and quick_xml::de::from_str
   on its result: the fields the serde attributes put on the wire *)

(* Router: id is #[serde(skip)], other_attributes is written *)
SerializeRouter(router) == [other_attributes |-> router.other_attributes]

(* Core: its identifier, router, allocated task and attribute bag are written *)
SerializeCore(core) ==
    [id |-> core.id, router |-> SerializeRouter(core.router),
     allocated_task |-> core.allocated_task, other_attributes |-> core.other_attributes]

(* ManycoreSystem: "@rows", "@columns" and the cores are written; connections,
   task_core_map and configurable_attributes are #[serde(skip)] *)
SerializeSystem(r, c, list) ==
    [rows |-> r, columns |-> c, cores |-> [i \in DOMAIN list |-> SerializeCore(list[i])]]

(* a skipped field is read as its Default *)
DeserializeRouter(w) == Router(DecodedRouterId, w.other_attributes)

DeserializeCore(w) ==
    Core(w.id, DeserializeRouter(w.router), w.allocated_task, w.other_attributes)

DeserializeCores(w) == [i \in DOMAIN w.cores |-> DeserializeCore(w.cores[i])]

DeserializeColumnsFromRows(w) == w.rows

DeserializeColumns(w) == w.columns

(* the model as the caller holds it *)
Model ==
    [rows |-> rows, columns |-> columns, cores |-> cores, connections |-> connections,
     task_core_map |-> task_core_map, core_attributes |-> core_attributes,
     router_attributes |-> router_attributes]

(* tests::can_serialize: serialize the model parse_file returned *)
Serialize ==
    /\ pc = "returned"
    /\ firstModel = None
    /\ wire' = Some(SerializeSystem(rows, columns, cores))
    /\ firstModel' = Some(Model)
    /\ pc' = "serialized"
    /\ UNCHANGED <<rows, columns, cores, connections, task_core_map,
                   core_attributes, router_attributes, panicAt, input>>

(* decode the serialized model: the document of a second parse_file *)
Deserialize ==
    /\ pc = "serialized"
    /\ rows' = Unwrap(wire).rows
    /\ columns' = DeserializeColumns(Unwrap(wire))
    /\ cores' = DeserializeCores(Unwrap(wire))
    /\ input' = DeserializeCores(Unwrap(wire))
    /\ connections' = EmptyMap
    /\ task_core_map' = EmptyMap
    /\ core_attributes' = EmptyMap
    /\ router_attributes' = EmptyMap
    /\ pc' = "decoded"
    /\ UNCHANGED <<panicAt, wire, firstModel>>

----------------------------------------------------------------------------
(* Documents *)

StructCores == {Core(id, Router(DecodedRouterId, None), None, None) : id \in 0 .. MaxId}

PlaceCores ==
    {Core(id, Router(DecodedRouterId, None), task, None) :
        id \in 0 .. MaxPlaceId, task \in {None} \cup {Some(t) : t \in 0 .. MaxTask}}

Decoded(r, c, list) ==
    /\ rows = r
    /\ columns = c
    /\ cores = list
    /\ input = list
    /\ connections = EmptyMap
    /\ task_core_map = EmptyMap
    /\ core_attributes = EmptyMap
    /\ router_attributes = EmptyMap
    /\ pc = "decoded"
    /\ panicAt = ""
    /\ wire = None
    /\ firstModel = None

(* texts of at most n characters over a small alphabet *)
Alphabet == {"0", "7", "+", "-", ".", "a"}

TextsUpTo(n) == UNION {[1 .. k -> Alphabet] : k \in 0 .. n}

T30 == <<"3", "0">>

Thirty == <<"t", "h", "i", "r", "t", "y">>

Minus5 == <<"-", "5">>

(* u64::MAX, u64::MAX + 1 and u64::MAX behind two zeros, as texts *)
U64MaxText ==
    <<"1", "8", "4", "4", "6", "7", "4", "4", "0", "7",
      "3", "7", "0", "9", "5", "5", "1", "6", "1", "5">>

U64OverText ==
    <<"1", "8", "4", "4", "6", "7", "4", "4", "0", "7",
      "3", "7", "0", "9", "5", "5", "1", "6", "1", "6">>

BoundaryTexts == {U64MaxText, U64OverText, <<"0", "0">> \o U64MaxText, <<"+">> \o U64OverText}

SmallTexts == {T30, Thirty, Minus5}

Bag1(k, v) == MapInsert(EmptyMap, k, v)

Bag2(k1, v1, k2, v2) == MapInsert(Bag1(k1, v1), k2, v2)

(* bags of a core: "@age" with any small text, and "@id" (the name of a pinned
   key) with a text that would infer Number *)
CoreBags ==
    {None} \cup {Some(Bag1("@age", v)) : v \in SmallTexts}
           \cup {Some(Bag1("@id", T30))}
           \cup {Some(Bag2("@age", v, "@id", T30)) : v \in SmallTexts}

RouterBags == {None} \cup {Some(Bag1("@age", v)) : v \in {T30, Thirty}}
                     \cup {Some(Bag1("@id", Thirty))}

AttrCores(n) ==
    {Core(id, Router(DecodedRouterId, rb), None, cb) :
        id \in 0 .. n - 1, rb \in RouterBags, cb \in CoreBags}

DistinctIds(list) == \A p, q \in DOMAIN list : p # q => list[p].id # list[q].id

(* documents that differ in their grid and their core identifiers: any rows,
   columns, core count and identifiers within the bounds, no task allocated *)
Init ==
    \E r \in 1 .. MaxRows, c \in 0 .. MaxCols, n \in 0 .. MaxCores :
        \E list \in Vecs(n, StructCores) : Decoded(r, c, list)

Next == ParseFile

Spec == Init /\ [][Next]_vars

(* documents that differ in their task allocation: one row of cores with any
   identifiers and allocated tasks within the bounds, the columns matching the
   core count or 0 *)
InitPlace ==
    \E n \in 0 .. MaxPlaceCores :
        \E c \in {0, n}, list \in Vecs(n, PlaceCores) : Decoded(1, c, list)

SpecPlace == InitPlace /\ [][Next]_vars

(* documents that differ in their attribute bags: a column of at most
   MaxAttrCores cores with distinct identifiers in any document order, or a
   single core whose "@age" is any text of at most MaxLen characters or one of
   the boundary texts *)
InitAttr ==
    \/ \E n \in 0 .. MaxAttrCores :
        \E list \in Vecs(n, AttrCores(n)) : DistinctIds(list) /\ Decoded(n, 1, list)
    \/ \E v \in TextsUpTo(MaxLen) \cup BoundaryTexts, onRouter \in BOOLEAN :
        Decoded(1, 1, [i \in {0} |->
            IF onRouter
            THEN Core(0, Router(DecodedRouterId, Some(Bag1("@age", v))), None, None)
            ELSE Core(0, Router(DecodedRouterId, None), None, Some(Bag1("@age", v)))])

SpecAttr == InitAttr /\ [][Next]_vars

(* documents for the round trip: two rows, at most MaxRoundCores cores with
   any identifiers up to MaxRoundId, with or without a task and attribute bags *)
RoundCores ==
    {Core(id, Router(DecodedRouterId, rb), task, cb) :
        id \in 0 .. MaxRoundId, task \in {None, Some(0)},
        rb \in {None, Some(Bag1("@age", Thirty))},
        cb \in {None, Some(Bag2("@age", T30, "@id", T30))}}

InitRound ==
    \E n \in 0 .. MaxRoundCores :
        \E c \in {0, 1, n}, list \in Vecs(n, RoundCores) : Decoded(2, c, list)

NextRound == ParseFile \/ Serialize \/ Deserialize

SpecRound == InitRound /\ [][NextRound]_vars

----------------------------------------------------------------------------
(* Properties of parse_file *)

Returned == pc = "returned"

(* C1: in every returned model each core's router carries the identifier of
   its core: core.router.id = core.id. *)
C1_RouterMirrorsCore ==
    Returned => \A i \in DOMAIN cores : cores[i].router.id = cores[i].id

(* C2: every returned model has exactly rows * columns cores; a document with
   another number of cores is rejected and returns no model. *)
C2_CountInvariant == Returned => VecLen(cores) = rows * columns

(* C3: every returned model has the core identifiers 0 .. N-1, the core at
   index i having identifier i; a document with a gap or a repeat among its
   identifiers is rejected and returns no model. *)
C3_IdentifiersContiguous == Returned => \A i \in DOMAIN cores : cores[i].id = i

(* C4: parse_file on a decoded document ends by returning a model or an error
   value; it never aborts part-way through the derivation. *)
C4_NeverAborts == pc # "panicked"

(* C6: in every returned model on a rows x columns grid the neighbours of the
   core at index i are those of its row-major position (row i / columns,
   column i % columns): no top neighbour iff row = 0 and else i - columns, no
   bottom neighbour iff row = rows - 1 and else i + columns, no left neighbour
   iff column = 0 and else i - 1, no right neighbour iff column = columns - 1
   and else i + 1; and connections has one entry per core index. *)
C6_AdjacencyMatchesGrid ==
    Returned =>
        /\ DOMAIN connections = 0 .. VecLen(cores) - 1
        /\ \A i \in DOMAIN connections :
            LET row == i \div columns
                col == i % columns
                nb == connections[i]
            IN  /\ nb.top = IF row = 0 THEN None ELSE Some(i - columns)
                /\ nb.bottom = IF row = rows - 1 THEN None ELSE Some(i + columns)
                /\ nb.left = IF col = 0 THEN None ELSE Some(i - 1)
                /\ nb.right = IF col = columns - 1 THEN None ELSE Some(i + 1)

(* the task identifiers some core of the list declares as its allocated task *)
DeclaredTasks(list) == UNION {list[i].allocated_task : i \in DOMAIN list}

(* the indices of the cores of the list that declare task t *)
Declaring(list, t) == {i \in DOMAIN list : list[i].allocated_task = Some(t)}

(* C5: in every returned model the keys of task_core_map are exactly the task
   identifiers some core declares as its allocated task, and every entry
   t -> k names an index k of the sorted core list whose core declares t (so a
   core without a task contributes no entry). *)
C5_TaskCoreMapKeysAndValues ==
    Returned =>
        /\ DOMAIN task_core_map = DeclaredTasks(cores)
        /\ \A t \in DOMAIN task_core_map :
            /\ task_core_map[t] \in DOMAIN cores
            /\ cores[task_core_map[t]].allocated_task = Some(t)

(* a returned model of three cores: two with different tasks, one without *)
C5_Witness ==
    /\ Returned
    /\ Cardinality(DOMAIN task_core_map) = 2
    /\ \E i \in DOMAIN cores : cores[i].allocated_task = None
    /\ \E i \in DOMAIN cores : cores[i].id # i /\ cores[i].allocated_task # None

(* the lists the cores of the document can be permuted into *)
Reorderings(list) ==
    {[k \in DOMAIN list |-> list[f[k]]] :
        f \in {g \in [DOMAIN list -> DOMAIN list] :
                  \A a, b \in DOMAIN list : a # b => g[a] # g[b]}}

(* C7: the cores of every returned model are sorted ascending by identifier,
   and the resulting core order is the same for every order in which the
   document lists its cores. *)
C7_SortedForEveryOrder ==
    Returned =>
        /\ \A i, j \in DOMAIN cores : i < j => cores[i].id <= cores[j].id
        /\ \A other \in Reorderings(input) : WithRouterIds(SortById(other)) = cores

(* C8: when two or more cores of the document declare the same task t,
   parse_file returns a model all the same (it fails only where it fails
   without the repeat: on columns = 0), and task_core_map holds for t the index
   of the last declaring core in ascending identifier order, no declaring core
   having a greater identifier. *)
C8_LastDeclaringCoreWins ==
    pc # "decoded" =>
        \A t \in DeclaredTasks(input) :
            Cardinality(Declaring(input, t)) >= 2 =>
                /\ columns # 0 => Returned
                /\ Returned =>
                    /\ t \in DOMAIN task_core_map
                    /\ task_core_map[t] \in Declaring(cores, t)
                    /\ \A i \in Declaring(cores, t) :
                        /\ i <= task_core_map[t]
                        /\ cores[i].id <= cores[task_core_map[t]].id

(* a returned model in which two cores with different identifiers declare the
   same task and the entry names the one with the greater identifier *)
C8_Witness ==
    /\ Returned
    /\ \E i, j \in DOMAIN cores :
        /\ cores[i].id < cores[j].id
        /\ cores[i].allocated_task # None
        /\ cores[i].allocated_task = cores[j].allocated_task
        /\ task_core_map[Unwrap(cores[i].allocated_task)] = j

----------------------------------------------------------------------------
(* Properties of the attribute registries *)

CoreBag(core) == core.other_attributes

RouterBag(core) == core.router.other_attributes

BagKeys(bag) == IF bag = None THEN {} ELSE DOMAIN Unwrap(bag)

(* the keys that occur in the bag Bag(_) of some core of the list *)
KeysOf(list, Bag(_)) == UNION {BagKeys(Bag(list[i])) : i \in DOMAIN list}

(* the value of the key in the bag of the core with the least identifier among
   the cores of the list whose bag contains the key *)
FirstValue(list, Bag(_), key) ==
    LET holders == {i \in DOMAIN list : key \in BagKeys(Bag(list[i]))}
        first == CHOOSE i \in holders : \A j \in holders : list[i].id <= list[j].id
    IN  Unwrap(Bag(list[first]))[key]

(* the keys parse_file inserts into the core-level registry before the scan *)
PinnedKeys == {"@id", "@coordinates"}

(* C9: in both registries the kind of a free-form key is the kind of the value
   of the first core, in ascending identifier order, whose bag contains the
   key; a later occurrence never changes it. *)
C9_FirstSeenWins ==
    Returned =>
        /\ \A key \in KeysOf(input, CoreBag) \ PinnedKeys :
            core_attributes[key] = AttributeTypeOf(FirstValue(input, CoreBag, key))
        /\ \A key \in KeysOf(input, RouterBag) :
            router_attributes[key] = AttributeTypeOf(FirstValue(input, RouterBag, key))

(* the example of the claim, with the later core first in the document: "@age"
   is "30" on core 0 and "thirty" on core 1, and the kind is Number; and the
   converse on the routers, where the kind is Text *)
C9_Witness ==
    /\ Returned
    /\ VecLen(input) = 2
    /\ input[0].id = 1
    /\ CoreBag(input[0]) = Some(Bag1("@age", Thirty))
    /\ CoreBag(input[1]) = Some(Bag1("@age", T30))
    /\ core_attributes["@age"] = "Number"
    /\ RouterBag(input[0]) = Some(Bag1("@age", T30))
    /\ RouterBag(input[1]) = Some(Bag1("@age", Thirty))
    /\ router_attributes["@age"] = "Text"

(* a text that reads as a number: an optional sign, one or more digits and
   optionally a point followed by one or more digits *)
IsNumberText(text) ==
    LET body == IF text # <<>> /\ Head(text) \in {"+", "-"} THEN Tail(text) ELSE text
        points == {k \in 1 .. Len(body) : body[k] = "."}
    IN  /\ body # <<>>
        /\ \A k \in 1 .. Len(body) : IsDigit(body[k]) \/ body[k] = "."
        /\ Cardinality(points) <= 1
        /\ 1 \notin points
        /\ Len(body) \notin points

(* a text that is an optional '+' and one or more digits of a value that is at
   most u64::MAX *)
IsU64Text(text) ==
    LET body == IF text # <<>> /\ Head(text) = "+" THEN Tail(text) ELSE text
    IN  /\ body # <<>>
        /\ \A k \in 1 .. Len(body) : IsDigit(body[k])
        /\ NumLeq(StripZeros([k \in 1 .. Len(body) |-> DigitVal(body[k])]), U64MaxDigits)

(* the registries hold the keys that occur in the bags (and the pinned keys),
   and no other; a document with cores and columns always returns *)
RegistryKeys ==
    /\ (pc # "decoded" /\ VecLen(input) > 0 /\ columns # 0) => Returned
    /\ Returned =>
        /\ DOMAIN core_attributes = KeysOf(input, CoreBag) \cup PinnedKeys
        /\ DOMAIN router_attributes = KeysOf(input, RouterBag)

(* C10 as stated: every key of a bag is in the registry of its level and the
   registry holds no other free-form key, the inferencer never fails, and a
   first-seen value is Number if its text reads as an integer or a number and
   Text otherwise. *)
C10_NumberIfTextIsNumber ==
    /\ RegistryKeys
    /\ Returned =>
        /\ \A key \in KeysOf(input, CoreBag) \ PinnedKeys :
            core_attributes[key] =
                IF IsNumberText(FirstValue(input, CoreBag, key)) THEN "Number" ELSE "Text"
        /\ \A key \in KeysOf(input, RouterBag) :
            router_attributes[key] =
                IF IsNumberText(FirstValue(input, RouterBag, key)) THEN "Number" ELSE "Text"

(* C10 as amended: the same, with Number exactly for the texts that are an
   optional '+' and decimal digits of a value of at most 2^64 - 1; a negative
   number, a fraction and a greater integer are Text. *)
C10_NumberIffU64Text ==
    /\ RegistryKeys
    /\ Returned =>
        /\ \A key \in KeysOf(input, CoreBag) \ PinnedKeys :
            core_attributes[key] =
                IF IsU64Text(FirstValue(input, CoreBag, key)) THEN "Number" ELSE "Text"
        /\ \A key \in KeysOf(input, RouterBag) :
            router_attributes[key] =
                IF IsU64Text(FirstValue(input, RouterBag, key)) THEN "Number" ELSE "Text"

(* a returned model whose "@age" was u64::MAX + 1 and is Text *)
C10_Witness ==
    /\ Returned
    /\ VecLen(input) = 1
    /\ CoreBag(input[0]) = Some(Bag1("@age", U64OverText))
    /\ core_attributes = MapInsert(PinnedCoreAttributes, "@age", "Text")
    /\ router_attributes = EmptyMap

(* C11: the pinned keys "@id" and "@coordinates" are in the core-level
   registry of every returned model with the kind Text they were inserted
   with, and the scan never changes it: a core whose bag carries "@id" with a
   value that infers Number leaves "@id" Text. *)
C11_PinnedKeysKeepKind ==
    Returned =>
        \A key \in PinnedKeys :
            /\ key \in DOMAIN core_attributes
            /\ core_attributes[key] = PinnedCoreAttributes[key]
            /\ core_attributes[key] = "Text"

(* a returned model whose first core carried "@id" = "30", which infers Number,
   in its bag, next to a free-form key that was inferred *)
C11_Witness ==
    /\ Returned
    /\ VecLen(cores) = 2
    /\ CoreBag(cores[0]) = Some(Bag2("@age", T30, "@id", T30))
    /\ AttributeTypeOf(Unwrap(CoreBag(cores[0]))["@id"]) = "Number"
    /\ core_attributes["@age"] = "Number"
    /\ core_attributes["@id"] = "Text"

(* C13: in every returned model adjacency is closed over the cores and
   mutual: every neighbour a connections entry names is the index of a core,
   and j is the right (bottom) neighbour of i exactly when i is the left (top)
   neighbour of j. *)
C13_AdjacencyMutualAndClosed ==
    Returned =>
        \A i \in DOMAIN connections :
            LET nb == connections[i]
            IN  /\ \A j \in nb.right : j \in DOMAIN cores /\ connections[j].left = Some(i)
                /\ \A j \in nb.left : j \in DOMAIN cores /\ connections[j].right = Some(i)
                /\ \A j \in nb.bottom : j \in DOMAIN cores /\ connections[j].top = Some(i)
                /\ \A j \in nb.top : j \in DOMAIN cores /\ connections[j].bottom = Some(i)

----------------------------------------------------------------------------
(* Properties of the round trip *)

(* C12: decoding the serialized form of a returned model and constructing
   again returns a model equal to the first in every field: the fields on the
   wire, and the derived fields (connections, task_core_map, the attribute
   registries, the router identifiers), which are not on the wire and are
   computed again to the same values. *)
C12_RoundTrip ==
    /\ wire # None =>
        /\ DOMAIN Unwrap(wire) = {"rows", "columns", "cores"}
        /\ \A i \in DOMAIN Unwrap(wire).cores :
            /\ DOMAIN Unwrap(wire).cores[i] =
                   {"id", "router", "allocated_task", "other_attributes"}
            /\ DOMAIN Unwrap(wire).cores[i].router = {"other_attributes"}
    /\ (firstModel # None /\ pc \notin {"serialized", "decoded"}) =>
        /\ Returned
        /\ Model = Unwrap(firstModel)

(* a second model of two cores, with a task, attributes, a right neighbour and
   the router identifier 1, which was not on the wire, computed again *)
C12_Witness ==
    /\ Returned
    /\ firstModel # None
    /\ VecLen(cores) = 2
    /\ cores[1].router.id = 1
    /\ Unwrap(wire).cores[1].id = 1
    /\ connections[0].right = Some(1)
    /\ task_core_map = MapInsert(EmptyMap, 0, 1)
    /\ core_attributes = MapInsert(PinnedCoreAttributes, "@age", "Number")
    /\ router_attributes = MapInsert(EmptyMap, "@age", "Text")

====
